---- MODULE Spec2Model ----
(***************************************************************************)
(* CHIP-8 interpreter (ccldd/chip8): the machine core (src/chip8/mod.rs),  *)
(* its keypad (src/chip8/keypad.rs) and the host's use of them             *)
(* (src/main.rs), as a state machine.                                      *)
(*                                                                         *)
(* Integers keep the width of their Rust type: u8 values are in 0..255,    *)
(* u16 values in 0..65535.  An arithmetic overflow panics in a build with  *)
(* overflow checks (debug) and wraps in a build without (release); the     *)
(* build is chosen once, in Init.  A panic ends the process: no operation  *)
(* runs after it.                                                          *)
(***************************************************************************)
EXTENDS Integers, Sequences, FiniteSets, TLC

----------------------------------------------------------------------------
(* Program constants *)

\* const INITIAL_PC: u16 = 0x200
INITIAL_PC == 512

\* const MEMORY_SIZE: usize = 4096
MEMORY_SIZE == 4096

\* const MAX_ROM_SIZE: usize = MEMORY_SIZE - INITIAL_PC as usize
MAX_ROM_SIZE == MEMORY_SIZE - INITIAL_PC

\* stack: [u16; 16]
STACK_SIZE == 16

\* display::WIDTH, display::HEIGHT (u8)
WIDTH == 64
HEIGHT == 32

\* base address of the built-in font sprites, 5 bytes per digit
FONT_BASE == 80

U8 == 256
U16 == 65536

\* enum Key { Key0 = 0x0, ..., KeyF = 0xF }
Key == 0..15

\* enum KeyState { Down, Up }
KeyState == {"Down", "Up"}

----------------------------------------------------------------------------
(* Bounds of the model *)

\* longest release queue the host lets build up between two ticks
MaxQueue == 2


----------------------------------------------------------------------------
(* Bit operations of the source, computed bit by bit *)

Pow2(n) == 2 ^ n

\* bit i of a
Bit(a, i) == (a \div Pow2(i)) % 2

\* the 16-bit value whose bit i is f(i)
FromBits(f(_)) ==
      f(0) + 2 * f(1) + 4 * f(2) + 8 * f(3) + 16 * f(4) + 32 * f(5) + 64 * f(6)
    + 128 * f(7) + 256 * f(8) + 512 * f(9) + 1024 * f(10) + 2048 * f(11)
    + 4096 * f(12) + 8192 * f(13) + 16384 * f(14) + 32768 * f(15)

\* the element of a one-element set (names a computed value)
Only(S) == CHOOSE v \in S : TRUE

\* a & b
BitAnd(a, b) ==
    Only({ FromBits(LAMBDA i : Bit(x, i) * Bit(y, i)) : x \in {a}, y \in {b} })

\* a | b
BitOr(a, b) ==
    Only({ FromBits(LAMBDA i : IF Bit(x, i) = 1 \/ Bit(y, i) = 1 THEN 1 ELSE 0) :
             x \in {a}, y \in {b} })

\* a ^ b
BitXor(a, b) ==
    Only({ FromBits(LAMBDA i : (Bit(x, i) + Bit(y, i)) % 2) : x \in {a}, y \in {b} })

\* a >> n
Shr(a, n) == a \div Pow2(n)

\* a << n on a value whose result fits the type
Shl(a, n) == a * Pow2(n)

----------------------------------------------------------------------------
(* Font table: 16 sprites of 5 bytes for the hex digits 0..F *)

FONT_SET ==
    << 240, 144, 144, 144, 240,     32,  96,  32,  32, 112,
       240,  16, 240, 128, 240,    240,  16, 240,  16, 240,
       144, 144, 240,  16,  16,    240, 128, 240,  16, 240,
       240, 128, 240, 144, 240,    240,  16,  32,  64,  64,
       240, 144, 240, 144, 240,    240, 144, 240,  16, 240,
       240, 144, 240, 144, 144,    224, 144, 224, 144, 224,
       240, 128, 128, 128, 240,    224, 144, 144, 144, 224,
       240, 128, 240, 128, 240,    240, 128, 240, 128, 128 >>

\* font::load_fonts(&mut memory)
load_fonts(mem) ==
    [a \in 0..(MEMORY_SIZE - 1) |->
        IF a >= FONT_BASE /\ a < FONT_BASE + Len(FONT_SET)
        THEN FONT_SET[a - FONT_BASE + 1]
        ELSE mem[a]]

\* font::get_sprite_addr(sprite: u8) -> u16
get_sprite_addr(sprite) == (FONT_BASE + 5 * sprite) % U16

----------------------------------------------------------------------------
VARIABLES
    memory,          \* [u8; 4096]
    display,         \* [[u8; HEIGHT]; WIDTH], display[x][y]
    pc,              \* u16
    I,               \* u16
    stack,           \* [u16; 16]
    sp,              \* u8
    delay_timer,     \* u8
    sound_timer,     \* u8
    V,               \* [u8; 16]
    keys,            \* Keypad.keys: HashMap<Key, KeyState>
    keys_released,   \* Keypad.keys_released: Vec<Key>
    status,          \* "new" | "running" | "load_error" | "panicked" | "blocked"
    overflow_checks, \* TRUE: arithmetic overflow panics; FALSE: it wraps
    last,            \* the last operation and its inputs
    calls,           \* history: the CALLs not yet returned from, innermost first
    st_set,          \* history: the value the last Fx18 wrote to sound_timer
    fresh,           \* history: the keys released since the last tick() returned
    st_calls,        \* history: tick_timers() calls since the last Fx18, up to st_set
    drawn            \* history: the word and the machine before it, if the last tick() drew

vars == << memory, display, pc, I, stack, sp, delay_timer, sound_timer, V,
           keys, keys_released, status, overflow_checks,
           last, calls, st_set, fresh, st_calls, drawn >>

machine == << memory, display, pc, I, stack, sp, delay_timer, sound_timer, V >>

\* the Chip8 struct as a value (keypad: Keypad is the last two fields)
Self ==
    [ memory |-> memory, display |-> display, pc |-> pc, I |-> I,
      stack |-> stack, sp |-> sp, delay_timer |-> delay_timer,
      sound_timer |-> sound_timer, V |-> V,
      keys |-> keys, keys_released |-> keys_released,
      panic |-> FALSE, blocked |-> FALSE ]

----------------------------------------------------------------------------
(* Keypad (src/chip8/keypad.rs) *)

\* Keypad::new(): every key Up, no release recorded
Keypad_new == [ keys |-> [k \in Key |-> "Up"], keys_released |-> << >> ]

\* set_key_state that queues every key set to Up, whatever it was before
set_key_state_every_up(kp, key, key_state) ==
    [ kp EXCEPT
        !.keys = [kp.keys EXCEPT ![key] = key_state],
        !.keys_released =
            IF key_state = "Up" THEN Append(kp.keys_released, key) ELSE kp.keys_released ]

\* Keypad::set_key_state(key, key_state) on the keypad fields of kp
set_key_state(kp, key, key_state) ==
    LET old_key_state == kp.keys[key]
    IN [ kp EXCEPT
           !.keys = [kp.keys EXCEPT ![key] = key_state],
           !.keys_released =
               IF old_key_state = "Down" /\ key_state = "Up"
               THEN Append(kp.keys_released, key)
               ELSE kp.keys_released ]

\* Keypad::get_key_state(key)
get_key_state(kp, key) == kp.keys[key]

\* Keypad::is_key_down(key)
is_key_down(kp, key) == get_key_state(kp, key) = "Down"

\* Keypad::is_key_up(key)
is_key_up(kp, key) == get_key_state(kp, key) = "Up"

\* Option<Key>: None is << >>, Some(key) is << key >>
None == << >>
Some(key) == << key >>

\* get_first_key_released that returns the latest release (last())
get_first_key_released_last(kp) ==
    IF Len(kp.keys_released) = 0 THEN None
    ELSE Some(kp.keys_released[Len(kp.keys_released)])

\* Keypad::get_first_key_released(): keys_released.first().copied()
get_first_key_released(kp) ==
    IF Len(kp.keys_released) = 0 THEN None ELSE Some(kp.keys_released[1])

\* clear_keys_released that clears nothing
clear_keys_released_nothing(kp) == kp

\* clear_keys_released that removes only the release at the head
clear_keys_released_head(kp) ==
    [ kp EXCEPT !.keys_released = IF @ = << >> THEN @ ELSE Tail(@) ]

\* Keypad::clear_keys_released()
clear_keys_released(kp) == [ kp EXCEPT !.keys_released = << >> ]

\* Key::from(u8) (num_enum FromPrimitive, default Key0)
Key_from(b) == IF b \in Key THEN b ELSE 0

----------------------------------------------------------------------------
(* Chip8::execute (src/chip8/mod.rs): one operator per match arm.  m is    *)
(* the machine after fetch; the result is the machine after the arm, with  *)
(* panic = TRUE when the arm panicked (state as of the panic).             *)

\* let opcode = instruction & 0xF000
opcode_of(instruction) == BitAnd(instruction, \hF000)

\* let x = instruction & 0x0F00 >> 8  (Rust: >> binds tighter than &)
reg_x(instruction) == BitAnd(instruction, Shr(\h0F00, 8))

\* let y = instruction & 0x00F0 >> 4
reg_y(instruction) == BitAnd(instruction, Shr(\h00F0, 4))

\* let addr = instruction & 0x0FFF
addr_of(instruction) == BitAnd(instruction, \h0FFF)

\* let byte = instruction & 0x00FF ... byte as u8
byte_of(instruction) == BitAnd(instruction, \h00FF) % U8

Panic(m) == [m EXCEPT !.panic = TRUE]

\* Self::unknown_instruction(instruction): logs, changes nothing
unknown_instruction(m, instruction) == m

\* 00E0 CLS
Exec_CLS(m) ==
    [m EXCEPT !.display = [x \in 0..(WIDTH - 1) |-> [y \in 0..(HEIGHT - 1) |-> 0]]]

\* 00EE RET: self.pc = self.stack[self.sp]; self.sp -= 1
Exec_RET(m) ==
    IF m.sp >= STACK_SIZE THEN Panic(m)
    ELSE LET m1 == [m EXCEPT !.pc = m.stack[m.sp]]
         IN IF m.sp = 0
            THEN IF overflow_checks THEN Panic(m1) ELSE [m1 EXCEPT !.sp = U8 - 1]
            ELSE [m1 EXCEPT !.sp = m.sp - 1]

\* 1nnn JP addr
Exec_JP(m, instruction) == [m EXCEPT !.pc = addr_of(instruction)]

\* CALL that pushes the address of the CALL itself
Exec_CALL_own_addr(m, instruction) ==
    IF m.sp = U8 - 1 /\ overflow_checks THEN Panic(m)
    ELSE LET sp1 == (m.sp + 1) % U8
             m1 == [m EXCEPT !.sp = sp1]
         IN IF sp1 >= STACK_SIZE THEN Panic(m1)
            ELSE [m1 EXCEPT !.stack[sp1] = m.pc - 2, !.pc = addr_of(instruction)]

\* 2nnn CALL addr: self.sp += 1; self.stack[self.sp] = self.pc; self.pc = addr
Exec_CALL(m, instruction) ==
    IF m.sp = U8 - 1 /\ overflow_checks THEN Panic(m)
    ELSE LET sp1 == (m.sp + 1) % U8
             m1 == [m EXCEPT !.sp = sp1]
         IN IF sp1 >= STACK_SIZE THEN Panic(m1)
            ELSE [m1 EXCEPT !.stack[sp1] = m.pc, !.pc = addr_of(instruction)]

\* 3xnn SE Vx, byte
Exec_SE_byte(m, instruction) ==
    LET x == reg_x(instruction)
        val == m.V[x]
    IN IF val = byte_of(instruction) THEN [m EXCEPT !.pc = @ + 2] ELSE m

\* 4xnn SNE Vx, byte
Exec_SNE_byte(m, instruction) ==
    LET x == reg_x(instruction)
        val == m.V[x]
    IN IF val # byte_of(instruction) THEN [m EXCEPT !.pc = @ + 2] ELSE m

\* 5xy_ SE Vx, Vy
Exec_SE_reg(m, instruction) ==
    LET x == reg_x(instruction)
        y == reg_y(instruction)
        vx == m.V[x]
        vy == m.V[y]
    IN IF vx = vy THEN [m EXCEPT !.pc = @ + 2] ELSE m

\* 6xnn LD Vx, byte
Exec_LD_byte(m, instruction) ==
    LET x == reg_x(instruction)
    IN [m EXCEPT !.V[x] = byte_of(instruction)]

\* 7xnn ADD Vx, byte: val.wrapping_add(byte as u8)
Exec_ADD_byte(m, instruction) ==
    LET x == reg_x(instruction)
        val == m.V[x]
    IN [m EXCEPT !.V[x] = (val + byte_of(instruction)) % U8]

\* 8xy_: the match on instruction & 0x000F
Exec_8_match(m, instruction, x, y) ==
    LET n == BitAnd(instruction, \h000F)
        vx == m.V[x]
        vy == m.V[y]
    IN CASE n = 0 -> [m EXCEPT !.V[x] = vy]
         [] n = 1 -> [m EXCEPT !.V[x] = BitOr(vx, vy)]
         [] n = 2 -> [m EXCEPT !.V[x] = BitAnd(vx, vy)]
         [] n = 3 -> [m EXCEPT !.V[x] = BitXor(vx, vy)]
         [] n = 4 ->
              \* V[0xF] is written first, V[x] second
              LET sum == vx + vy
                  m1 == [m EXCEPT !.V[15] = IF sum > 255 THEN 1 ELSE 0]
              IN [m1 EXCEPT !.V[x] = sum % U8]
         [] n = 5 ->
              \* V[0xF] is written first; the operands are read again after it
              LET m1 == [m EXCEPT !.V[15] = IF vx > vy THEN 1 ELSE 0]
              IN [m1 EXCEPT !.V[x] = (m1.V[x] - m1.V[y] + U8) % U8]
         [] n = 6 ->
              LET m1 == [m EXCEPT !.V[15] = BitAnd(vx, 1)]
              IN [m1 EXCEPT !.V[x] = m1.V[x] \div 2]
         [] n = 7 ->
              LET m1 == [m EXCEPT !.V[15] = IF vy > vx THEN 1 ELSE 0]
              IN [m1 EXCEPT !.V[x] = (m1.V[y] - m1.V[x] + U8) % U8]
         [] n = 14 ->
              \* self.V[x] *= 2 overflows for V[x] >= 128
              LET m1 == [m EXCEPT !.V[15] = Shr(vx, 7)]
                  v1 == m1.V[x]
              IN IF v1 * 2 >= U8 /\ overflow_checks THEN Panic(m1)
                 ELSE [m1 EXCEPT !.V[x] = (v1 * 2) % U8]
         [] OTHER -> unknown_instruction(m, instruction)

\* 8xy_: the match, then the trailing self.V[x] = self.V[y]
Exec_8(m, instruction) ==
    LET x == reg_x(instruction)
        y == reg_y(instruction)
        m1 == Exec_8_match(m, instruction, x, y)
    IN IF m1.panic THEN m1 ELSE [m1 EXCEPT !.V[x] = m1.V[y]]

\* 9xy_ SNE Vx, Vy: compares the indices x and y
Exec_SNE_reg(m, instruction) ==
    LET x == reg_x(instruction)
        y == reg_y(instruction)
    IN IF x # y THEN [m EXCEPT !.pc = @ + 2] ELSE m

\* Annn LD I, addr
Exec_LD_I(m, instruction) == [m EXCEPT !.I = addr_of(instruction)]

\* Bnnn JP V0, addr
Exec_JP_V0(m, instruction) == [m EXCEPT !.pc = addr_of(instruction) + m.V[0]]

\* Cxnn RND Vx, byte; rand is rand::random::<u8>()
Exec_RND(m, instruction, rand) ==
    LET x == reg_x(instruction)
    IN [m EXCEPT !.V[x] = BitAnd(rand, byte_of(instruction))]

\* Dxyn: the loop over the 8 bits of one sprite row, from bit j on.
\* st = [display, vf, x, y, panic]
RECURSIVE DrawBits(_, _, _)
DrawBits(st, byte, j) ==
    IF j >= 8 THEN st
    ELSE LET bit == BitAnd(byte, Shr(\h80, j))
             cur == st.display[st.x][st.y]
             st1 == IF bit = 1 /\ cur # 0
                    THEN [st EXCEPT !.display[st.x][st.y] = 0, !.vf = 1]
                    ELSE IF bit = 1 /\ cur = 0
                    THEN [st EXCEPT !.display[st.x][st.y] = 1]
                    ELSE st
         IN IF st1.x = WIDTH - 1 THEN st1
            ELSE DrawBits([st1 EXCEPT !.x = @ + 1], byte, j + 1)

\* Dxyn: the loop over the sprite rows, from row on
RECURSIVE DrawRows(_, _, _, _, _)
DrawRows(st, mem, i_reg, row, n) ==
    IF row >= n THEN st
    ELSE IF i_reg + row >= MEMORY_SIZE THEN [st EXCEPT !.panic = TRUE]
    ELSE LET st1 == DrawBits(st, mem[i_reg + row], 0)
             st2 == [st1 EXCEPT !.y = @ + 1]
         IN IF st2.y >= HEIGHT THEN st2
            ELSE DrawRows(st2, mem, i_reg, row + 1, n)

\* DRW that does not reset VF before drawing
Exec_DRW_keeps_vf(m, instruction) ==
    LET x_reg == reg_x(instruction)
        y_reg == reg_y(instruction)
        x == m.V[x_reg] % WIDTH
        y == m.V[y_reg] % HEIGHT
        n == BitAnd(instruction, \h000F)
        st == DrawRows([display |-> m.display, vf |-> m.V[15], x |-> x, y |-> y,
                        panic |-> FALSE], m.memory, m.I, 0, n)
    IN [m EXCEPT !.display = st.display, !.V[15] = st.vf, !.panic = st.panic]

\* Dxyn DRW Vx, Vy, nibble
Exec_DRW(m, instruction) ==
    LET x_reg == reg_x(instruction)
        y_reg == reg_y(instruction)
        x == m.V[x_reg] % WIDTH
        y == m.V[y_reg] % HEIGHT
        n == BitAnd(instruction, \h000F)
        st == DrawRows([display |-> m.display, vf |-> 0, x |-> x, y |-> y,
                        panic |-> FALSE], m.memory, m.I, 0, n)
    IN [m EXCEPT !.display = st.display, !.V[15] = st.vf, !.panic = st.panic]

\* KeyPad::is_pressed(key): the key is Down
is_pressed(kp, key) == is_key_down(kp, key)

\* Ex__ SKP Vx / SKNP Vx
Exec_E(m, instruction) ==
    LET x == reg_x(instruction)
        key == m.V[x]
        nn == BitAnd(instruction, \h00FF)
    IN CASE nn = \h9E ->
              IF is_pressed(m, Key_from(key)) THEN [m EXCEPT !.pc = @ + 2] ELSE m
         [] nn = \hA1 ->
              IF ~is_pressed(m, Key_from(key)) THEN [m EXCEPT !.pc = @ + 2] ELSE m
         [] OTHER -> unknown_instruction(m, instruction)

\* wait_for_key_press that returns only once a release is recorded
wait_for_key_press_blocking(kp) ==
    [returns |-> kp.keys_released # << >>, key |-> get_first_key_released(kp)]

\* KeyPad::wait_for_key_press(): polls the release queue and returns at once
wait_for_key_press(kp) == [returns |-> TRUE, key |-> get_first_key_released(kp)]

\* Fx0A with no release recorded: pc goes back to the Fx0A
rewind(m) == [m EXCEPT !.pc = @ - 2]

\* Fx0A LD Vx, K: let key = self.keypad.wait_for_key_press();
\* self.V[x as usize] = key as u8.  The branch for no key is rewind.
Exec_LD_Vx_K(m, instruction) ==
    LET x == reg_x(instruction)
        got == wait_for_key_press(m)
    IN IF ~got.returns THEN [m EXCEPT !.blocked = TRUE]
       ELSE IF got.key = None THEN rewind(m)
       ELSE [m EXCEPT !.V[x] = got.key[1] % U8]

\* Fx07 LD Vx, DT
Exec_LD_Vx_DT(m, instruction) ==
    LET x == reg_x(instruction) IN [m EXCEPT !.V[x] = m.delay_timer]

\* Fx15 that writes the other timer
Exec_LD_DT_Vx_sound(m, instruction) ==
    LET x == reg_x(instruction) IN [m EXCEPT !.sound_timer = m.V[x]]

\* Fx15 LD DT, Vx
Exec_LD_DT_Vx(m, instruction) ==
    LET x == reg_x(instruction) IN [m EXCEPT !.delay_timer = m.V[x]]

\* Fx18 LD ST, Vx
Exec_LD_ST_Vx(m, instruction) ==
    LET x == reg_x(instruction) IN [m EXCEPT !.sound_timer = m.V[x]]

\* Fx1E ADD I, Vx: self.I += self.V[x] as u16
Exec_ADD_I_Vx(m, instruction) ==
    LET x == reg_x(instruction)
        sum == m.I + m.V[x]
    IN IF sum >= U16 /\ overflow_checks THEN Panic(m)
       ELSE [m EXCEPT !.I = sum % U16]

\* Fx29 LD F, Vx
Exec_LD_F_Vx(m, instruction) ==
    LET x == reg_x(instruction) IN [m EXCEPT !.I = get_sprite_addr(m.V[x])]

\* mem with the bytes bs written from address a on, up to the end of memory
WriteBytes(mem, a, bs) ==
    [b \in 0..(MEMORY_SIZE - 1) |->
        IF b >= a /\ b < a + Len(bs) THEN bs[b - a + 1] ELSE mem[b]]

\* Fx33 LD B, Vx: three writes memory[I], memory[I + 1], memory[I + 2]
Exec_LD_B_Vx(m, instruction) ==
    LET x == reg_x(instruction)
        val == m.V[x]
        digits == << val \div 100, (val \div 10) % 10, val % 10 >>
        m1 == [m EXCEPT !.memory = WriteBytes(m.memory, m.I, digits)]
    IN IF m.I + 2 >= MEMORY_SIZE THEN Panic(m1) ELSE m1

\* Fx55 LD [I], Vx: for i in 0..=x { memory[I + i] = V[i] }
Exec_LD_I_Vx(m, instruction) ==
    LET x == reg_x(instruction)
        m1 == [m EXCEPT !.memory = WriteBytes(m.memory, m.I, [i \in 1..(x + 1) |-> m.V[i - 1]])]
    IN IF m.I + x >= MEMORY_SIZE THEN Panic(m1) ELSE m1

\* Fx65 LD Vx, [I]: for i in 0..=x { V[i] = memory[I + i] }
Exec_LD_Vx_I(m, instruction) ==
    LET x == reg_x(instruction)
        m1 == [m EXCEPT !.V = [i \in 0..15 |->
                   IF i <= x /\ m.I + i < MEMORY_SIZE THEN m.memory[m.I + i] ELSE m.V[i]]]
    IN IF m.I + x >= MEMORY_SIZE THEN Panic(m1) ELSE m1

\* Fx__: the match arms, nn = instruction & 0x00FF
Exec_F_match(m, instruction, nn) ==
       CASE nn = \h07 -> Exec_LD_Vx_DT(m, instruction)
         [] nn = \h0A -> Exec_LD_Vx_K(m, instruction)
         [] nn = \h15 -> Exec_LD_DT_Vx(m, instruction)
         [] nn = \h18 -> Exec_LD_ST_Vx(m, instruction)
         [] nn = \h1E -> Exec_ADD_I_Vx(m, instruction)
         [] nn = \h29 -> Exec_LD_F_Vx(m, instruction)
         [] nn = \h33 -> Exec_LD_B_Vx(m, instruction)
         [] nn = \h55 -> Exec_LD_I_Vx(m, instruction)
         [] nn = \h65 -> Exec_LD_Vx_I(m, instruction)
         [] OTHER -> unknown_instruction(m, instruction)

\* Fx__: match instruction & 0x00FF
Exec_F(m, instruction) ==
    Only({ Exec_F_match(m, instruction, nn) : nn \in { BitAnd(instruction, \h00FF) } })

\* 0___: the match on instruction & 0x00FF
Exec_0(m, instruction) ==
    LET nn == BitAnd(instruction, \h00FF)
    IN CASE nn = \hE0 -> Exec_CLS(m)
         [] nn = \hEE -> Exec_RET(m)
         [] OTHER -> unknown_instruction(m, instruction)

\* Chip8::execute(instruction): the match arms, opcode = instruction & 0xF000
execute_match(m, instruction, opcode, rand) ==
       CASE opcode = \h0000 -> Exec_0(m, instruction)
         [] opcode = \h1000 -> Exec_JP(m, instruction)
         [] opcode = \h2000 -> Exec_CALL(m, instruction)
         [] opcode = \h3000 -> Exec_SE_byte(m, instruction)
         [] opcode = \h4000 -> Exec_SNE_byte(m, instruction)
         [] opcode = \h5000 -> Exec_SE_reg(m, instruction)
         [] opcode = \h6000 -> Exec_LD_byte(m, instruction)
         [] opcode = \h7000 -> Exec_ADD_byte(m, instruction)
         [] opcode = \h8000 -> Exec_8(m, instruction)
         [] opcode = \h9000 -> Exec_SNE_reg(m, instruction)
         [] opcode = \hA000 -> Exec_LD_I(m, instruction)
         [] opcode = \hB000 -> Exec_JP_V0(m, instruction)
         [] opcode = \hC000 -> Exec_RND(m, instruction, rand)
         [] opcode = \hD000 -> Exec_DRW(m, instruction)
         [] opcode = \hE000 -> Exec_E(m, instruction)
         [] opcode = \hF000 -> Exec_F(m, instruction)
         [] OTHER -> unknown_instruction(m, instruction)

\* Chip8::execute(instruction)
execute(m, instruction, rand) ==
    Only({ execute_match(m, instruction, opcode, rand) :
             opcode \in { opcode_of(instruction) } })

\* Chip8::fetch(): the word read; the caller checks CanFetch first
fetch_word(m) == BitOr(Shl(m.memory[m.pc], 8), m.memory[m.pc + 1])

\* memory[pc] and memory[pc + 1] are inside the array
CanFetch(m) == m.pc + 1 < MEMORY_SIZE

\* Chip8::fetch(): the machine after it (self.pc += 2)
fetch(m) == [m EXCEPT !.pc = @ + 2]

\* Chip8::tick(): fetch, execute, then drain the release queue
tick(m, rand) ==
    IF ~CanFetch(m) THEN Panic(m)
    ELSE Only({ IF m1.panic \/ m1.blocked THEN m1 ELSE clear_keys_released(m1) :
                  m1 \in { execute(fetched, instruction, rand) :
                             fetched \in { fetch(m) },
                             instruction \in { fetch_word(m) } } })

\* a timer that wraps below 0 (wrapping_sub)
dec_timer_wrapping(t) == (t + U8 - 1) % U8

\* one timer of tick_timers(): down by 1, floored at 0
dec_timer(t) == IF t > 0 THEN t - 1 ELSE 0

\* Chip8::tick_timers()
tick_timers(m) ==
    [m EXCEPT !.delay_timer = dec_timer(m.delay_timer),
              !.sound_timer = dec_timer(m.sound_timer)]

\* Chip8::should_play_sound()
should_play_sound(m) == m.sound_timer > 0

\* load_rom that checks the size against the whole memory
load_rom_memory_size(m, file) ==
    IF ~file.exists THEN [ok |-> FALSE, m |-> m]
    ELSE LET file_size == Len(file.bytes)
         IN IF file_size > MEMORY_SIZE THEN [ok |-> FALSE, m |-> m]
            ELSE [ok |-> TRUE,
                  m |-> [m EXCEPT !.memory = WriteBytes(m.memory, INITIAL_PC, file.bytes)]]

\* Chip8::load_rom(file): file = [exists, bytes]; the result and the machine
load_rom(m, file) ==
    IF ~file.exists THEN [ok |-> FALSE, m |-> m]
    ELSE LET file_size == Len(file.bytes)
         IN IF file_size > MAX_ROM_SIZE THEN [ok |-> FALSE, m |-> m]
            ELSE [ok |-> TRUE,
                  m |-> [m EXCEPT !.memory = WriteBytes(m.memory, INITIAL_PC, file.bytes)]]

\* Chip8::new()
Chip8_new ==
    [ memory |-> load_fonts([a \in 0..(MEMORY_SIZE - 1) |-> 0]),
      display |-> [x \in 0..(WIDTH - 1) |-> [y \in 0..(HEIGHT - 1) |-> 0]],
      pc |-> INITIAL_PC,
      I |-> 0,
      stack |-> [i \in 0..(STACK_SIZE - 1) |-> 0],
      sp |-> 0,
      delay_timer |-> 0,
      sound_timer |-> 0,
      V |-> [i \in 0..15 |-> 0],
      keys |-> Keypad_new.keys,
      keys_released |-> Keypad_new.keys_released,
      panic |-> FALSE, blocked |-> FALSE ]

----------------------------------------------------------------------------
(* The inputs: ROM files, keys, random bytes *)

\* the bytes of a sequence of 16-bit instruction words, big-endian
Bytes(words) ==
    [i \in 1..(2 * Len(words)) |->
        IF i % 2 = 1 THEN words[(i + 1) \div 2] \div 256 ELSE words[i \div 2] % 256]

File(bytes) == [exists |-> TRUE, bytes |-> bytes]

RomFiles ==
    [ wait |->      \* 200: LD V3,K   202: JP 200
        File(Bytes(<< \hF30A, \h1200 >>)),
      timers |->    \* 200: LD V0,05  202: LD DT,V5  204: LD V0,08  206: LD ST,V8
                    \* 208: LD VA,K   20A: JP 208
        File(Bytes(<< \h6005, \hF515, \h6008, \hF818, \hFA0A, \h1208 >>)),
      calls |->     \* 200: CALL 206  202: JP 202  204: JP 204
                    \* 206: CALL 20A  208: RET     20A: RET
        File(Bytes(<< \h2206, \h1202, \h1204, \h220A, \h00EE, \h00EE >>)),
      regs |->      \* 200: LD VA,42  202: ADD VA,FF  204: ADD VA,FF
                    \* 206: LD V1,23  208: ADD V1,F0  20A: JP 20A
        File(Bytes(<< \h6A42, \h7AFF, \h7AFF, \h6123, \h71F0, \h120A >>)),
      alu |->       \* 200: SUB V0,V0  202: LD V0,F1  204: LD V0,12  206: LD V0,8E
                    \* 208: ADD V1,V2  20A: SUB V1,V2  20C: SUBN V1,V2
                    \* 20E: SHR V1     210: SHL V1     212: JP 212
        File(Bytes(<< \h8005, \h60F1, \h6012, \h608E, \h8124, \h8125, \h8127,
                      \h8126, \h812E, \h1212 >>)),
      draw |->      \* 200: LD I,210   202: DRW V0,V0,1  204: DRW V0,V0,1
                    \* 206: LD I,211   208: DRW V0,V0,2  20A: DRW V0,V0,2
                    \* 20C: DRW V0,V0,2  20E: JP 20E     210: F0 81 01 00
        File(Bytes(<< \hA210, \hD001, \hD001, \hA211, \hD002, \hD002, \hD002,
                      \h120E, \hF081, \h0100 >>)),
      unknown |->   \* 200: 0123  202: 8128  204: E100  206: F1FF  208: 5011
                    \* 20A: JP 20A  20C: 9011  20E: JP 20E
        File(Bytes(<< \h0123, \h8128, \hE100, \hF1FF, \h5011, \h120A, \h9011, \h120E >>)),
      skip |->      \* 200: LD V1,05  202: SE V1,V5  204: JP 204
                    \* 206: SNE V1,V5  208: JP 208
        File(Bytes(<< \h6105, \h5150, \h1204, \h9150, \h1208 >>)),
      bounds |->    \* 200: LD I,FFF  202: LD B,V0
        File(Bytes(<< \hAFFF, \hF033 >>)),
      deep |->      \* 200: CALL 200
        File(Bytes(<< \h2200 >>)),
      keys |->      \* 200: LD V0,05  202: SKP V5  204: SKNP V5  206: JP 206
                    \* 208: JP 208
        File(Bytes(<< \h6005, \hE59E, \hE5A1, \h1206, \h1208 >>)),
      cls |->       \* 200: LD I,20C  202: DRW V0,V0,1  204: 01E0  206: DRW V0,V0,1
                    \* 208: CLS  20A: JP 20A  20C: 01 00
        File(Bytes(<< \hA20C, \hD001, \h01E0, \hD001, \h00E0, \h120A, \h0100 >>)),
      jump_end |->  \* 200: JP FFF
        File(Bytes(<< \h1FFF >>)),
      largest |->   \* MAX_ROM_SIZE bytes: JP 200, then FF to the end of memory
        File([i \in 1..MAX_ROM_SIZE |-> IF i = 1 THEN \h12 ELSE IF i = 2 THEN 0 ELSE \hFF]),
      too_large |-> \* one byte more than fits
        File([i \in 1..(MAX_ROM_SIZE + 1) |-> \hFF]),
      missing |->   \* no such file
        [exists |-> FALSE, bytes |-> << >>] ]

RomNames == DOMAIN RomFiles

\* the keys the host changes
KeysUsed == { 5, 10 }

\* the values rand::random::<u8>() is drawn from
RandBytes == { 0, \hA5, \hFF }

----------------------------------------------------------------------------
(* The state machine *)

NoOp ==
    [op |-> "new", key |-> 0, state |-> "Up", instruction |-> 0, addr |-> 0,
     released |-> << >>, rom |-> ""]

\* the variables of the machine take the fields of m
Commit(m) ==
    /\ pc' = m.pc
    /\ I' = m.I
    /\ sp' = m.sp
    /\ delay_timer' = m.delay_timer
    /\ sound_timer' = m.sound_timer
    /\ V' = m.V
    /\ keys' = m.keys
    /\ keys_released' = m.keys_released
    /\ stack' = m.stack
    /\ display' = m.display
    /\ memory' = m.memory

\* main: let mut chip8 = Chip8::new()
Init ==
    /\ memory = Chip8_new.memory
    /\ display = Chip8_new.display
    /\ pc = Chip8_new.pc
    /\ I = Chip8_new.I
    /\ stack = Chip8_new.stack
    /\ sp = Chip8_new.sp
    /\ delay_timer = Chip8_new.delay_timer
    /\ sound_timer = Chip8_new.sound_timer
    /\ V = Chip8_new.V
    /\ keys = Chip8_new.keys
    /\ keys_released = Chip8_new.keys_released
    /\ status = "new"
    /\ overflow_checks \in BOOLEAN
    /\ last = NoOp
    /\ calls = << >>
    /\ st_set = 0
    /\ st_calls = 0
    /\ fresh = << >>
    /\ drawn = << >>

\* main: chip8.load_rom(&args.rom).expect("error loading rom")
LoadRom(name) ==
    /\ status = "new"
    /\ \E r \in { load_rom(Self, RomFiles[name]) } :
          /\ Commit(r.m)
          /\ status' = IF r.ok THEN "running" ELSE "load_error"
    /\ last' = [NoOp EXCEPT !.op = "load_rom", !.rom = name]
    /\ UNCHANGED << overflow_checks, calls, st_set, st_calls, fresh, drawn >>

\* update_keypad: chip8.keypad.set_key_state(key, state)
SetKeyState(key, key_state) ==
    /\ status = "running"
    /\ \E m \in { set_key_state(Self, key, key_state) } :
          /\ Len(m.keys_released) <= MaxQueue
          /\ Commit(m)
    /\ last' = [NoOp EXCEPT !.op = "set_key_state", !.key = key, !.state = key_state]
    /\ fresh' = IF keys[key] = "Down" /\ key_state = "Up" THEN Append(fresh, key) ELSE fresh
    /\ UNCHANGED << status, overflow_checks, calls, st_set, st_calls, drawn >>

\* update_keypad(chip8): for key in Key::iter(), from key on; pressed is the
\* set of keys the host's keyboard holds down
RECURSIVE update_keypad(_, _, _)
update_keypad(m, pressed, key) ==
    IF key > 15 THEN m
    ELSE update_keypad(set_key_state(m, key, IF key \in pressed THEN "Down" ELSE "Up"),
                       pressed, key + 1)

\* the elements of a set of numbers, lowest first
RECURSIVE Ascending(_)
Ascending(S) ==
    IF S = {} THEN << >>
    ELSE LET lowest == CHOOSE x \in S : \A y \in S : x <= y
         IN << lowest >> \o Ascending(S \ { lowest })

\* main: update_keypad(&mut chip8)
UpdateKeypad(pressed) ==
    /\ status = "running"
    /\ \E m \in { update_keypad(Self, pressed, 0) } :
          /\ Len(m.keys_released) <= MaxQueue
          /\ Commit(m)
    /\ last' = [NoOp EXCEPT !.op = "update_keypad"]
    /\ fresh' = fresh \o Ascending({ k \in Key : keys[k] = "Down" /\ k \notin pressed })
    /\ UNCHANGED << status, overflow_checks, calls, st_set, st_calls, drawn >>

\* the random bytes an instruction word can consume
RandFor(instruction) ==
    IF opcode_of(instruction) = \hC000 THEN RandBytes ELSE {0}

\* main: chip8.tick()
Tick ==
    /\ status = "running"
    /\ \E self \in { Self } :
       \E fetched \in { CanFetch(self) } :
       \E instruction \in { IF fetched THEN fetch_word(self) ELSE 0 } :
       \E rand \in RandFor(instruction) :
       \E m \in { tick(self, rand) } :
         LET done == fetched /\ ~m.panic /\ ~m.blocked
             is_call == done /\ opcode_of(instruction) = \h2000
             is_ret == done /\ instruction = \h00EE
             is_ld_st == done /\ opcode_of(instruction) = \hF000
                              /\ BitAnd(instruction, \h00FF) = \h18
         IN /\ last' = [NoOp EXCEPT !.op = IF fetched THEN "tick" ELSE "tick_no_fetch",
                                    !.instruction = instruction, !.addr = pc,
                                    !.released = keys_released]
            /\ status' = IF m.panic THEN "panicked"
                         ELSE IF m.blocked THEN "blocked" ELSE "running"
            /\ fresh' = IF done THEN << >> ELSE fresh
            /\ calls' = IF is_call THEN << [a |-> pc, sp |-> sp] >> \o calls
                        ELSE IF is_ret /\ calls # << >> THEN Tail(calls)
                        ELSE calls
            /\ st_set' = IF is_ld_st THEN m.sound_timer ELSE st_set
            /\ st_calls' = IF is_ld_st THEN 0 ELSE st_calls
            /\ drawn' = IF done /\ opcode_of(instruction) = \hD000
                        THEN << [w |-> instruction, display |-> display, I |-> I, V |-> V] >>
                        ELSE << >>
            /\ Commit(m)
    /\ UNCHANGED overflow_checks

\* main: chip8.tick_timers()
TickTimers ==
    /\ status = "running"
    /\ last' = [NoOp EXCEPT !.op = "tick_timers"]
    /\ \E m \in { tick_timers(Self) } : Commit(m)
    /\ st_calls' = IF st_calls < st_set THEN st_calls + 1 ELSE st_calls
    /\ UNCHANGED << status, overflow_checks, calls, st_set, fresh, drawn >>

Next ==
    \/ \E name \in RomNames : LoadRom(name)
    \/ \E key \in KeysUsed, key_state \in KeyState : SetKeyState(key, key_state)
    \/ Tick
    \/ TickTimers

Spec == Init /\ [][Next]_vars

\* what a step of the host loop changes when it changes anything
progress == << last, status, pc, delay_timer, sound_timer, keys_released >>

\* the host running a ROM that waits for a key (Fx0A), one key in use
WaitNext ==
    \/ \E name \in { "wait", "timers" } : LoadRom(name)
    \/ \E key_state \in KeyState : SetKeyState(5, key_state)
    \/ Tick
    \/ TickTimers

\* the host loop of main never stops calling tick() and tick_timers()
FairSpec ==
    Init /\ [][WaitNext]_vars /\ WF_progress(Tick) /\ WF_progress(TickTimers)

\* a ROM that waits for a key or tests keys, with key changes one at a time
\* or by a pass of update_keypad, in any order with the ticks
KeysNext ==
    \/ \E name \in { "wait", "keys" } : LoadRom(name)
    \/ \E key \in KeysUsed, key_state \in KeyState : SetKeyState(key, key_state)
    \/ \E pressed \in SUBSET KeysUsed : UpdateKeypad(pressed)
    \/ Tick
    \/ TickTimers

KeysSpec == Init /\ [][KeysNext]_vars

\* the loop of main: update_keypad before every tick, tick_timers after ticks
HostNext ==
    \/ \E name \in { "wait", "keys" } : LoadRom(name)
    \/ \E pressed \in SUBSET KeysUsed : last.op # "update_keypad" /\ UpdateKeypad(pressed)
    \/ last.op = "update_keypad" /\ Tick
    \/ last.op = "tick" /\ TickTimers

HostSpec == Init /\ [][HostNext]_vars

----------------------------------------------------------------------------
(* The fields of an instruction word, as the instruction set defines them *)

Nibble1(w) == w \div 4096
Nibble2(w) == (w \div 256) % 16
Nibble3(w) == (w \div 16) % 16
Nibble4(w) == w % 16
LowByte(w) == w % 256

IsFx0A(w) == Nibble1(w) = 15 /\ LowByte(w) = 10

\* the state is the one a tick() that fetched a word has just returned to
Ticked == last.op = "tick" /\ status = "running"

\* the machine is about to fetch an Fx0A
Waiting == status = "running" /\ CanFetch(Self) /\ IsFx0A(fetch_word(Self))

----------------------------------------------------------------------------
(* Claims *)

\* C1: a tick that executes Fx0A at address a with an empty release queue ends
\* with pc = a and Vx unchanged; with a release recorded it ends with
\* pc = a + 2 and Vx = the number of the (first) released key, x being the
\* second nibble of the word.
C1_Fx0A_LoadsVx ==
    [][ (Ticked' /\ IsFx0A(last'.instruction)) =>
          LET x == Nibble2(last'.instruction)
              a == last'.addr
          IN IF keys_released = << >>
             THEN pc' = a /\ V'[x] = V[x]
             ELSE pc' = a + 2 /\ V'[x] = keys_released[1] ]_vars

C4_SetKeyState ==
    [][ last'.op = "set_key_state" =>
          LET k == last'.key
              s == last'.state
          IN /\ keys'[k] = s
             /\ \A j \in Key \ {k} : keys'[j] = keys[j]
             /\ keys_released' = IF keys[k] = "Down" /\ s = "Up"
                                 THEN Append(keys_released, k)
                                 ELSE keys_released ]_vars

\* C4 witness: a Down -> Up transition has appended its key behind an
\* earlier release.
C4_Witness ==
    /\ last.op = "set_key_state" /\ last.state = "Up"
    /\ Len(keys_released) = 2
    /\ keys_released[2] = last.key

\* C5: tick_timers lowers each timer that is above 0 by exactly 1 and leaves
\* a timer that is 0 at 0, each timer for itself; both timers are in 0..255
\* in every state.
C5_TickTimers ==
    /\ [](delay_timer \in 0..255 /\ sound_timer \in 0..255)
    /\ [][ last'.op = "tick_timers" =>
             /\ delay_timer' = IF delay_timer > 0 THEN delay_timer - 1 ELSE 0
             /\ sound_timer' = IF sound_timer > 0 THEN sound_timer - 1 ELSE 0 ]_vars

\* C5 witness: a tick_timers call that found delay_timer at 0 (sound_timer
\* was set to 8 after it, and 6 calls were made since) and sound_timer above 0.
C5_Witness ==
    /\ last.op = "tick_timers"
    /\ delay_timer = 0
    /\ st_set = 8 /\ st_calls = 6 /\ sound_timer = 2

\* C6: after Fx18 set sound_timer to v, should_play_sound() is true while
\* fewer than v tick_timers calls were made and false from the v-th call on
\* (st_calls stops counting at v), whatever ticks were made in between.
C6_ShouldPlaySound ==
    /\ should_play_sound(Self) <=> (st_calls < st_set)
    /\ sound_timer = st_set - st_calls

\* C6 witness: the v-th call has just been made and the sound is off.
C6_Witness ==
    /\ last.op = "tick_timers"
    /\ st_set = 8 /\ st_calls = st_set
    /\ ~should_play_sound(Self)

\* C7: a RET that matches a CALL fetched at address a leaves pc = a + 2 and
\* sp at the value it had before that CALL.
C7_CallRet ==
    [][ (Ticked' /\ last'.instruction = \h00EE /\ calls # << >>) =>
          /\ pc' = Head(calls).a + 2
          /\ sp' = Head(calls).sp ]_vars

\* C7 witness: the RET matching the outer CALL at 0x200 (with a nested
\* CALL/RET pair in between) has returned.
C7_Witness ==
    /\ Ticked /\ last.instruction = \h00EE
    /\ last.addr = \h208
    /\ pc = \h202 /\ sp = 0 /\ calls = << >>

\* C8: load_rom of an image longer than 3584 bytes fails and leaves memory
\* as it was; an image of L <= 3584 bytes is copied to 0x200 .. 0x200 + L - 1
\* and every other byte of memory stays as it was.
C8_LoadRom ==
    [][ (last'.op = "load_rom" /\ RomFiles[last'.rom].exists) =>
          LET bytes == RomFiles[last'.rom].bytes
              L == Len(bytes)
          IN IF L > 3584
             THEN status' = "load_error" /\ memory' = memory
             ELSE /\ status' = "running"
                  /\ \A a \in 0..4095 :
                       memory'[a] = IF a >= 512 /\ a < 512 + L
                                    THEN bytes[a - 512 + 1]
                                    ELSE memory[a] ]_vars

\* C8 witness: the image of 3585 bytes has been refused.
C8_Witness ==
    /\ last.op = "load_rom" /\ last.rom = "too_large"
    /\ status = "load_error"

\* C9: the register index x that execute uses is the second nibble of the
\* word: 6xnn writes nn into V[x] and changes no other register.
C9_DecodeX ==
    [][ (Ticked' /\ Nibble1(last'.instruction) = 6) =>
          V' = [V EXCEPT ![Nibble2(last'.instruction)] = LowByte(last'.instruction)] ]_vars

\* C10: 7xnn sets Vx to (Vx + nn) mod 256, x being the second nibble of the
\* word, and changes no other register (VF stays as it was for x # 0xF).
C10_AddByte ==
    [][ (Ticked' /\ Nibble1(last'.instruction) = 7) =>
          LET x == Nibble2(last'.instruction)
          IN V' = [V EXCEPT ![x] = (V[x] + LowByte(last'.instruction)) % 256] ]_vars

\* the word is 8xyN with last nibble n
Is8xy(w, n) == Nibble1(w) = 8 /\ Nibble4(w) = n

\* C11: 8xy4 with x # 0xF leaves Vx = (Vx + Vy) mod 256 and VF = 1 if the
\* sum of the values Vx and Vy held before the instruction is above 255,
\* else VF = 0.
C11_AddReg ==
    [][ (Ticked' /\ Is8xy(last'.instruction, 4) /\ Nibble2(last'.instruction) # 15) =>
          LET x == Nibble2(last'.instruction)
              y == Nibble3(last'.instruction)
          IN /\ V'[x] = (V[x] + V[y]) % 256
             /\ V'[15] = IF V[x] + V[y] > 255 THEN 1 ELSE 0 ]_vars

\* C12: 8xy5 leaves Vx = (Vx - Vy) mod 256 and VF = 1 iff Vx >= Vy; 8xy7
\* leaves Vx = (Vy - Vx) mod 256 and VF = 1 iff Vy >= Vx; Vx and Vy are the
\* values held before the instruction (stated for x # 0xF, where Vx and VF
\* are two registers).
C12_SubReg ==
    [][ (Ticked' /\ Nibble2(last'.instruction) # 15
           /\ (Is8xy(last'.instruction, 5) \/ Is8xy(last'.instruction, 7))) =>
          LET x == Nibble2(last'.instruction)
              y == Nibble3(last'.instruction)
              a == IF Is8xy(last'.instruction, 5) THEN V[x] ELSE V[y]
              b == IF Is8xy(last'.instruction, 5) THEN V[y] ELSE V[x]
          IN /\ V'[x] = (a - b + 256) % 256
             /\ V'[15] = IF a >= b THEN 1 ELSE 0 ]_vars

\* C13: 8xy6 leaves Vx = floor(Vx / 2) and VF = bit 0 of the old Vx; 8xyE
\* leaves Vx = (Vx * 2) mod 256 and VF = bit 7 of the old Vx; the tick
\* returns for every Vx, also for Vx >= 128 (stated for x # 0xF).
C13_ShiftReg ==
    [][ (last'.op = "tick" /\ Nibble2(last'.instruction) # 15
           /\ (Is8xy(last'.instruction, 6) \/ Is8xy(last'.instruction, 14))) =>
          LET x == Nibble2(last'.instruction)
          IN /\ status' = "running"
             /\ IF Is8xy(last'.instruction, 6)
                THEN V'[x] = V[x] \div 2 /\ V'[15] = V[x] % 2
                ELSE V'[x] = (V[x] * 2) % 256 /\ V'[15] = V[x] \div 128 ]_vars

\* the word is Dxyn
IsDxyn(w) == Nibble1(w) = 13

\* bit j (MSB first) of the byte b
SpriteBit(b, j) == (b \div (2 ^ (7 - j))) % 2

\* the sprite bit that Dxyn w, run on the machine [V, I, memory], lays on the
\* pixel (c, r): bit c - x0 of row r - y0 inside the clipped box, else 0
SpriteAt(w, c, r) ==
    LET x0 == V[Nibble2(w)] % 64
        y0 == V[Nibble3(w)] % 32
    IN IF /\ c >= x0 /\ c < x0 + 8
          /\ r >= y0 /\ r < y0 + Nibble4(w)
          /\ I + (r - y0) < 4096
       THEN SpriteBit(memory[I + (r - y0)], c - x0)
       ELSE 0

\* C14: a Dxyn executed right after the same Dxyn (same word, same Vx, Vy
\* and I; memory is not written in between) leaves the display as it was
\* before the first of the two, and VF = 1 if the sprite has a 1-bit inside
\* the display.
C14_DrawTwice ==
    [][ (/\ Ticked' /\ IsDxyn(last'.instruction)
         /\ drawn # << >> /\ drawn[1].w = last'.instruction /\ drawn[1].I = I
         /\ drawn[1].V[Nibble2(last'.instruction)] = V[Nibble2(last'.instruction)]
         /\ drawn[1].V[Nibble3(last'.instruction)] = V[Nibble3(last'.instruction)]) =>
          /\ display' = drawn[1].display
          /\ (\E c \in 0..63, r \in 0..31 : SpriteAt(last'.instruction, c, r) = 1)
                => V'[15] = 1 ]_vars

\* C15: Dxyn with origin (Vx mod 64, Vy mod 32) flips the pixel (c, r) exactly
\* when bit c - x0 (MSB first) of sprite row r - y0 is 1 and (c, r) is inside
\* the box of 8 columns and n rows clipped at column 63 and row 31; every
\* other pixel stays as it was.
C15_DrawBox ==
    [][ (Ticked' /\ IsDxyn(last'.instruction)) =>
          \A c \in 0..63, r \in 0..31 :
             display'[c][r] = IF SpriteAt(last'.instruction, c, r) = 1
                              THEN 1 - display[c][r]
                              ELSE display[c][r] ]_vars

\* C19: after a Dxyn, VF = 1 if that draw turned at least one lit pixel off
\* and VF = 0 otherwise, whatever VF held before.
C19_CollisionFlag ==
    [][ (Ticked' /\ IsDxyn(last'.instruction)) =>
          V'[15] = IF \E c \in 0..63, r \in 0..31 :
                         display[c][r] # 0 /\ display'[c][r] = 0
                   THEN 1 ELSE 0 ]_vars

\* C19 witness: a draw that found VF = 1 and turned no pixel off (it lit
\* pixels) has left VF = 0.
C19_Witness ==
    /\ Ticked /\ IsDxyn(last.instruction)
    /\ drawn # << >> /\ drawn[1].V[15] = 1
    /\ V[15] = 0
    /\ \E c \in 0..63, r \in 0..31 : drawn[1].display[c][r] = 0 /\ display[c][r] = 1

\* the word is an instruction of the instruction table
InTable(w) ==
    \/ Nibble1(w) \in { 1, 2, 3, 4, 6, 7, 10, 11, 12, 13 }
    \/ w \in { \h00E0, \h00EE }
    \/ Nibble1(w) \in { 5, 9 } /\ Nibble4(w) = 0
    \/ Nibble1(w) = 8 /\ Nibble4(w) \in (0..7) \cup { 14 }
    \/ Nibble1(w) = 14 /\ LowByte(w) \in { \h9E, \hA1 }
    \/ Nibble1(w) = 15 /\ LowByte(w) \in { \h07, \h0A, \h15, \h18, \h1E, \h29,
                                              \h33, \h55, \h65 }

\* C16: a tick that fetches a word outside the instruction table returns
\* with pc at the next word and registers, I, memory, stack, sp, timers,
\* display and key states as they were.
C16_UnknownIsNoOp ==
    [][ (last'.op = "tick" /\ ~InTable(last'.instruction)) =>
          /\ status' = "running"
          /\ pc' = last'.addr + 2
          /\ UNCHANGED << V, I, memory, stack, sp, delay_timer, sound_timer,
                          display, keys >> ]_vars

\* the word indexes memory with I
IndexesMemory(w) ==
    \/ IsDxyn(w)
    \/ Nibble1(w) = 15 /\ LowByte(w) \in { \h33, \h55, \h65 }

\* C17: no array access of a tick is out of bounds: neither the fetch of
\* memory[pc], memory[pc + 1] nor the memory[I + i] of Dxyn, Fx33, Fx55 and
\* Fx65 ends the program (an index out of bounds panics; V and display
\* indices are in range by construction).
C17_InBounds ==
    [][ (\/ last'.op = "tick_no_fetch"
         \/ last'.op = "tick" /\ IndexesMemory(last'.instruction)) =>
          status' # "panicked" ]_vars

\* C18: while fewer than 16 CALLs are unreturned a CALL returns with sp = the
\* new nesting depth (up to 16), and a RET with an unreturned CALL returns
\* to the address after the innermost of them with sp = the new depth.
C18_StackDepth ==
    [][ /\ (last'.op = "tick" /\ Nibble1(last'.instruction) = 2 /\ Len(calls) < 16) =>
             /\ status' = "running"
             /\ sp' = Len(calls) + 1
        /\ (last'.op = "tick" /\ last'.instruction = \h00EE /\ calls # << >>) =>
             /\ status' = "running"
             /\ pc' = Head(calls).a + 2
             /\ sp' = Len(calls) - 1 ]_vars

\* C20: 5xy0 adds 2 to pc iff the values of Vx and Vy are equal, 9xy0 adds
\* 2 to pc iff they differ (so exactly one of the two skips), and neither
\* changes a register.
C20_SkipReg ==
    [][ (Ticked' /\ Nibble1(last'.instruction) \in { 5, 9 } /\ Nibble4(last'.instruction) = 0) =>
          LET x == Nibble2(last'.instruction)
              y == Nibble3(last'.instruction)
              skips == (V[x] = V[y]) <=> (Nibble1(last'.instruction) = 5)
          IN /\ pc' = last'.addr + (IF skips THEN 4 ELSE 2)
             /\ V' = V ]_vars

\* C21: Ex9E adds 2 to pc iff the key numbered by the value of Vx (0..15) is
\* Down, ExA1 iff that key is Up; is_key_down and is_key_up are complementary
\* for every key; neither instruction changes a key state.
C21_SkipKey ==
    [][ (/\ Ticked' /\ Nibble1(last'.instruction) = 14
         /\ LowByte(last'.instruction) \in { \h9E, \hA1 }
         /\ V[Nibble2(last'.instruction)] \in Key) =>
          LET key == V[Nibble2(last'.instruction)]
              skips == (keys[key] = "Down") <=> (LowByte(last'.instruction) = \h9E)
          IN /\ pc' = last'.addr + (IF skips THEN 4 ELSE 2)
             /\ \A k \in Key : is_key_down(Self, k) <=> ~is_key_up(Self, k)
             /\ keys' = keys ]_vars

\* C22: only a tick that fetched 00E0 or Dxyn changes a pixel of the display;
\* every other word, tick_timers and set_key_state leave all pixels as they
\* were; 00E0 turns every pixel off and changes no register.
C22_OnlyClsAndDrw ==
    [][ /\ (display' # display) =>
             /\ last'.op = "tick"
             /\ last'.instruction = \h00E0 \/ IsDxyn(last'.instruction)
        /\ (Ticked' /\ last'.instruction = \h00E0) =>
             /\ \A c \in 0..63, r \in 0..31 : display'[c][r] = 0
             /\ V' = V ]_vars

\* C23: at any time get_first_key_released gives the first release recorded
\* since the last clear (asking does not remove it); that is the key an Fx0A
\* loads; and after a pass of update_keypad over an empty queue it is the
\* lowest-numbered of the keys that went Down -> Up in that pass.
C23_FirstReleased ==
    /\ [](get_first_key_released(Self) =
             IF fresh = << >> THEN None ELSE Some(Head(fresh)))
    /\ [][ (Ticked' /\ IsFx0A(last'.instruction) /\ fresh # << >>) =>
             \E i \in 0..15 : V' = [V EXCEPT ![i] = Head(fresh)] ]_vars
    /\ [][ (last'.op = "update_keypad" /\ keys_released = << >>) =>
             LET went_up == { k \in Key : keys[k] = "Down" /\ keys'[k] = "Up" }
             IN IF went_up = {} THEN keys_released' = << >>
                ELSE /\ keys_released' # << >>
                     /\ Head(keys_released') \in went_up
                     /\ \A k \in went_up : Head(keys_released') <= k ]_vars

\* C23 witness: an Fx0A has loaded key 10, released before key 5 in the same
\* interval between two ticks.
C23_Witness ==
    /\ Ticked /\ IsFx0A(last.instruction)
    /\ last.released = << 10, 5 >>
    /\ pc = last.addr + 2
    /\ V[10] = 10

====
